---- MODULE Spec2Model ----
(***************************************************************************)
(* Model of the two market-report scripts:                                 *)
(*   daily_market_recap.py  (closing-price variant, "closing")             *)
(*   crypto_update.py       (spot-price variant,    "spot")                *)
(*                                                                         *)
(* Numbers are integers in thousandths; a percentage is kept as the exact  *)
(* fraction num/den so that its sign and its relation to the change are    *)
(* those of the code's division.  Python dicts are insertion-ordered and   *)
(* are sequences of [k, v] pairs.  Text is a sequence of lines, a line is  *)
(* a record of the values the f-string interpolates.                       *)
(***************************************************************************)
EXTENDS Integers, Sequences, FiniteSets, TLC

VARIABLES variant, pc, api_key, claude_client, crypto_data, treasury_data,
          fred_data, idx, calls, sentiment, now, claude_analysis, report, again,
          written, env

vars == <<variant, pc, api_key, claude_client, crypto_data, treasury_data,
          fred_data, idx, calls, sentiment, now, claude_analysis, report, again,
          written, env>>

\* ------------------------------------------------------------------ bounds
MaxObs == 3
MaxVal == 2

\* ----------------------------------------------------------- Python values
None == [absent |-> TRUE]

\* float() of a provider value that is not a number ("." in both providers)
BadValue == -1

Abs(x) == IF x < 0 THEN -x ELSE x

\* '{x:.2f}': thousandths rounded to hundredths
Fmt2(x) == IF x < 0 THEN -((Abs(x) + 5) \div 10) ELSE (x + 5) \div 10

\* '{p:+.2f}' of a fraction: hundredths of the quotient, rounded
FmtPct(p) == IF p.num < 0 THEN -((Abs(p.num) * 100 + p.den \div 2) \div p.den)
             ELSE (p.num * 100 + p.den \div 2) \div p.den

\* variant of PctChange that takes the percentage of the current value
PctChangeOfCurrent(change, previous) ==
    IF previous # 0 THEN [num |-> change * 100, den |-> previous + change]
    ELSE [num |-> 0, den |-> 1]

\* (change / previous) * 100 if previous != 0 else 0
PctChange(change, previous) ==
    IF previous # 0 THEN [num |-> change * 100, den |-> previous]
    ELSE [num |-> 0, den |-> 1]

\* -------------------------------------------------- insertion-ordered dict
DictKeys(d) == {d[i].k : i \in 1..Len(d)}

\* d.get(key)
DictGet(d, key) ==
    IF key \in DictKeys(d)
    THEN d[CHOOSE i \in 1..Len(d) : d[i].k = key].v
    ELSE None

\* variant of DictSet in which storing None drops the entries stored before
DictSetNoneResets(d, key, val) ==
    IF val = [absent |-> TRUE] THEN <<[k |-> key, v |-> val]>>
    ELSE IF key \in DictKeys(d)
    THEN [i \in 1..Len(d) |-> IF d[i].k = key THEN [k |-> key, v |-> val] ELSE d[i]]
    ELSE Append(d, [k |-> key, v |-> val])

\* d[key] = val
DictSet(d, key, val) ==
    IF key \in DictKeys(d)
    THEN [i \in 1..Len(d) |-> IF d[i].k = key THEN [k |-> key, v |-> val] ELSE d[i]]
    ELSE Append(d, [k |-> key, v |-> val])

\* bool(x) of a record-or-None, and of a dict
Truthy(x) == x # None
TruthyDict(d) == Len(d) > 0

\* ------------------------------------------------------------ configuration
\* self.crypto_ids, in insertion order
crypto_ids == <<"BTC", "ETH", "XRP">>

\* self.fred_series, in insertion order
fred_series == <<"fed_funds_rate", "3_month_tbill", "2_year_treasury">>

\* self.fred_api_key = None in both constructors
fred_api_key == None

\* 'limit': 2 in every request to the secondary provider
FredLimit == 2

\* --------------------------------------------------------- the request log
Get(provider, item) == [op |-> "GET", provider |-> provider, item |-> item]
Sleep(item) == [op |-> "sleep", provider |-> "time", item |-> item]

\* ------------------------------------------------------ provider responses
\* values a provider quotes in a full run, and in a single adapter call
Quotes == {1004, 2006}
Vals == (0..MaxVal) \cup {BadValue}

SeqsUpTo(S, n) == UNION {[1..m -> S] : m \in 0..n}

Exception == [kind |-> "exception"]

\* the 'data' list of the Alpha Vantage payload: {date, value} objects, listed
\* newest first ("desc") or oldest first ("asc")
DataList(order, values) ==
    [i \in 1..Len(values) |->
        [date |-> IF order = "desc" THEN Len(values) - i + 1 ELSE i,
         value |-> values[i]]]

\* the 'Time Series (Daily)' map of the same payload, keyed by date
TimeSeries(values) == [kind |-> "ts", series |-> values]

AlphaVantageResponses(V, orders) ==
    {Exception, [kind |-> "note"], [kind |-> "error"], [kind |-> "unexpected"]}
    \cup {[kind |-> "data", data |-> DataList(o, s)] :
              o \in orders, s \in SeqsUpTo(V, MaxObs)}
    \cup {TimeSeries(s) : s \in SeqsUpTo(V, MaxObs)}

\* the secondary provider's payload: at most 'limit' observations, newest first
FredResponses(V) ==
    {Exception, [kind |-> "unexpected"]}
    \cup {[kind |-> "observations", observations |-> s] : s \in SeqsUpTo(V, FredLimit)}

ChartResponses(V) ==
    {Exception, [kind |-> "unexpected"]}
    \cup {[kind |-> "prices", prices |-> s] : s \in SeqsUpTo(V, MaxObs)}

MarketCaps == {900000}
Volumes == {40000}

CoinResponses ==
    {Exception} \cup
    {[kind |-> "coin", market_cap |-> m, volume |-> v] : m \in MarketCaps, v \in Volumes}

\* the spot payload: current price, provider-computed 24h change (percent and
\* absolute); "coin_null" is a payload whose change fields are JSON null
SpotChanges == {[pct |-> [num |-> -3, den |-> 1], usd |-> -30],
                [pct |-> [num |-> 0, den |-> 1], usd |-> 0],
                [pct |-> [num |-> 3, den |-> 1], usd |-> 30]}

SpotResponses(V) ==
    {Exception, [kind |-> "coin_null"]} \cup
    {[kind |-> "coin", current_price |-> c, price_change_percentage_24h |-> ch.pct,
      price_change_24h |-> ch.usd, market_cap |-> m, volume |-> v] :
        c \in V, ch \in SpotChanges, m \in MarketCaps, v \in Volumes}

\* ------------------------------------------------------- Price Feed Adapter
\* one iteration of the loop of get_crypto_closing_prices
ClosingAsset(symbol, chart, coin) ==
    LET chartReq == Get("coingecko_market_chart", symbol)
        coinReq == Get("coingecko_coin", symbol)
    IN IF chart.kind = "exception"
       THEN [rec |-> None, log |-> <<chartReq>>, exc |-> FALSE]
       ELSE IF chart.kind = "prices" /\ Len(chart.prices) >= 2
       THEN LET current_close == chart.prices[Len(chart.prices)]
                previous_close == chart.prices[Len(chart.prices) - 1]
                price_change == current_close - previous_close
            IN IF BadValue \in {current_close, previous_close}
               THEN [rec |-> None, log |-> <<chartReq>>, exc |-> FALSE]
               ELSE IF coin.kind = "exception"
               THEN [rec |-> None, log |-> <<chartReq, coinReq>>, exc |-> FALSE]
               ELSE [rec |-> [current_close |-> current_close,
                              previous_close |-> previous_close,
                              price_change |-> price_change,
                              price_change_pct |-> PctChange(price_change, previous_close),
                              market_cap |-> coin.market_cap,
                              volume_24h |-> coin.volume],
                     log |-> <<chartReq, coinReq, Sleep(symbol)>>, exc |-> FALSE]
       ELSE [rec |-> None, log |-> <<chartReq, Sleep(symbol)>>, exc |-> FALSE]

\* one iteration of the loop of get_crypto_prices
SpotAsset(symbol, coin) ==
    LET coinReq == Get("coingecko_coin", symbol)
    IN IF coin.kind = "coin" /\ coin.current_price # BadValue
       THEN [rec |-> [current_price |-> coin.current_price,
                      price_change_24h_pct |-> coin.price_change_percentage_24h,
                      price_change_24h_usd |-> coin.price_change_24h,
                      market_cap |-> coin.market_cap,
                      volume_24h |-> coin.volume],
             log |-> <<coinReq, Sleep(symbol)>>, exc |-> FALSE]
       ELSE [rec |-> None, log |-> <<coinReq>>, exc |-> FALSE]

\* ------------------------------------------------------- Yield Feed Adapter
YieldRecord(current, previous) ==
    [current_yield |-> current,
     previous_yield |-> previous,
     yield_change |-> current - previous,
     yield_change_pct |-> PctChange(current - previous, previous)]

\* variant of get_treasury_from_fred without the try/except around the request
get_treasury_from_fred_unguarded(fred) ==
    LET req == Get("fred", "DGS10")
        obs == fred.observations
    IN IF fred.kind = "exception"
       THEN [ret |-> None, log |-> <<req>>, exc |-> TRUE]
       ELSE IF fred.kind = "observations" /\ Len(obs) >= 2 /\ BadValue \notin {obs[1], obs[2]}
       THEN [ret |-> YieldRecord(obs[1], obs[2]), log |-> <<req>>, exc |-> FALSE]
       ELSE [ret |-> None, log |-> <<req>>, exc |-> FALSE]

\* get_treasury_from_fred of the closing variant
get_treasury_from_fred(fred) ==
    LET req == Get("fred", "DGS10")
        obs == fred.observations
    IN IF fred.kind = "observations" /\ Len(obs) >= 2 /\ BadValue \notin {obs[1], obs[2]}
       THEN [ret |-> YieldRecord(obs[1], obs[2]), log |-> <<req>>, exc |-> FALSE]
       ELSE [ret |-> None, log |-> <<req>>, exc |-> FALSE]

\* the except branch of get_treasury_yield: return self.get_treasury_from_fred()
TreasuryExceptBranch(req, fred) ==
    LET fb == get_treasury_from_fred(fred)
    IN [ret |-> fb.ret, log |-> <<req>> \o fb.log, exc |-> fb.exc]

\* get_treasury_yield of the closing variant
get_treasury_yield(primary, fred) ==
    LET req == Get("alpha_vantage", "10year")
    IN CASE primary.kind = "exception" -> TreasuryExceptBranch(req, fred)
         [] primary.kind = "data" /\ Len(primary.data) >= 2 ->
              LET latest_data == primary.data[1]
                  previous_data == primary.data[2]
              IN IF BadValue \in {latest_data.value, previous_data.value}
                 THEN TreasuryExceptBranch(req, fred)
                 ELSE [ret |-> [current_yield |-> latest_data.value,
                                previous_yield |-> previous_data.value,
                                yield_change |-> latest_data.value - previous_data.value,
                                yield_change_pct |->
                                    PctChange(latest_data.value - previous_data.value,
                                              previous_data.value),
                                current_date |-> latest_data.date,
                                previous_date |-> previous_data.date],
                       log |-> <<req>>, exc |-> FALSE]
         [] primary.kind = "ts" ->
              LET n == Len(primary.series)
              IN IF n >= 2
                 THEN IF BadValue \in {primary.series[n], primary.series[n - 1]}
                      THEN TreasuryExceptBranch(req, fred)
                      ELSE [ret |-> YieldRecord(primary.series[n], primary.series[n - 1]),
                            log |-> <<req>>, exc |-> FALSE]
                 ELSE [ret |-> None, log |-> <<req>>, exc |-> FALSE]
         [] OTHER -> [ret |-> None, log |-> <<req>>, exc |-> FALSE]

\* get_treasury_yield of the spot variant
get_treasury_yield_spot(primary) ==
    LET req == Get("alpha_vantage", "10year")
    IN IF primary.kind = "data" /\ Len(primary.data) > 0
       THEN LET current_yield == primary.data[1].value
                previous_yield == IF Len(primary.data) > 1 THEN primary.data[2].value
                                  ELSE current_yield
            IN IF BadValue \in {current_yield, previous_yield}
               THEN [ret |-> None, log |-> <<req>>, exc |-> FALSE]
               ELSE [ret |-> YieldRecord(current_yield, previous_yield), log |-> <<req>>, exc |-> FALSE]
       ELSE [ret |-> None, log |-> <<req>>, exc |-> FALSE]

\* -------------------------------------------------- Short-Rate Feed Adapter
RateRecord(current, previous) ==
    [current_rate |-> current,
     previous_rate |-> previous,
     change |-> current - previous,
     change_pct |-> PctChange(current - previous, previous)]

\* the body of the loop of get_fred_rates once the request is made
FredSeriesFetch(rate_name, fred) ==
    LET req == Get("fred", rate_name)
        obs == fred.observations
    IN IF fred.kind = "exception" THEN [rec |-> None, log |-> <<req>>, exc |-> FALSE]
       ELSE IF fred.kind = "observations" /\ Len(obs) >= 2
       THEN IF BadValue \in {obs[1], obs[2]}
            THEN [rec |-> None, log |-> <<req>>, exc |-> FALSE]
            ELSE [rec |-> RateRecord(obs[1], obs[2]), log |-> <<req, Sleep(rate_name)>>, exc |-> FALSE]
       ELSE [rec |-> None, log |-> <<req, Sleep(rate_name)>>, exc |-> FALSE]

\* variant of ClosingFredSeries without the credential check
ClosingFredSeriesUnchecked(rate_name, fred) == FredSeriesFetch(rate_name, fred)

\* one iteration of the loop of get_fred_rates, closing variant: the series
\* is skipped without a request when no credential is configured
ClosingFredSeries(rate_name, fred) ==
    IF ~Truthy(fred_api_key) THEN [rec |-> None, log |-> <<>>, exc |-> FALSE]
    ELSE FredSeriesFetch(rate_name, fred)

\* one iteration of the loop of get_fred_rates, spot variant: no credential check
SpotFredSeries(rate_name, fred) == FredSeriesFetch(rate_name, fred)

\* get_fred_rates of the closing variant run with self.fred_api_key = key, on
\* one response per configured series
get_fred_rates(key, resps) ==
    LET Fetch(i) == IF ~Truthy(key) THEN [rec |-> None, log |-> <<>>, exc |-> FALSE]
                    ELSE FredSeriesFetch(fred_series[i], resps[i])
    IN [ret |-> [i \in 1..Len(fred_series) |-> [k |-> fred_series[i], v |-> Fetch(i).rec]],
        log |-> Fetch(1).log \o Fetch(2).log \o Fetch(3).log,
        exc |-> FALSE]

\* variant of AdditionalRate that accepts a single observation as both values
AdditionalRateSingle(maturity, resp) ==
    LET req == Get("alpha_vantage", maturity)
        n == IF resp.kind = "data" THEN Len(resp.data) ELSE 0
    IN IF n >= 1 /\ BadValue \notin {resp.data[1].value, resp.data[IF n > 1 THEN 2 ELSE 1].value}
       THEN [rec |-> RateRecord(resp.data[1].value, resp.data[IF n > 1 THEN 2 ELSE 1].value),
             log |-> <<req>>, exc |-> FALSE]
       ELSE [rec |-> None, log |-> <<req>>, exc |-> FALSE]

\* one try block of get_additional_treasury_rates
AdditionalRate(maturity, resp) ==
    LET req == Get("alpha_vantage", maturity)
    IN IF resp.kind = "data" /\ Len(resp.data) >= 2
          /\ BadValue \notin {resp.data[1].value, resp.data[2].value}
       THEN [rec |-> RateRecord(resp.data[1].value, resp.data[2].value), log |-> <<req>>, exc |-> FALSE]
       ELSE [rec |-> None, log |-> <<req>>, exc |-> FALSE]

\* variant of ApproxFedFunds that leaves the note out
ApproxFedFundsUntagged(tbill) ==
    [current_rate |-> tbill.current_rate,
     previous_rate |-> tbill.previous_rate,
     change |-> tbill.change,
     change_pct |-> tbill.change_pct]

\* the approximated policy-rate record
ApproxFedFunds(tbill) ==
    [current_rate |-> tbill.current_rate,
     previous_rate |-> tbill.previous_rate,
     change |-> tbill.change,
     change_pct |-> tbill.change_pct,
     note |-> "Approximated from 3M Treasury"]

\* get_additional_treasury_rates
get_additional_treasury_rates(resp_2y, resp_3m) ==
    LET r2 == AdditionalRate("2year", resp_2y)
        r3 == AdditionalRate("3month", resp_3m)
    IN [ret |-> <<[k |-> "2_year_treasury", v |-> r2.rec],
                  [k |-> "3_month_tbill", v |-> r3.rec],
                  [k |-> "fed_funds_rate",
                   v |-> IF Truthy(r3.rec) THEN ApproxFedFunds(r3.rec) ELSE None]>>,
        log |-> r2.log \o r3.log,
        exc |-> r2.exc \/ r3.exc]

AllNone(d) == \A i \in 1..Len(d) : d[i].v = None

\* variant of get_fred_closing_rates that always takes the fallback
get_fred_closing_rates_always(fred, resp_2y, resp_3m) ==
    get_additional_treasury_rates(resp_2y, resp_3m)

\* get_fred_closing_rates, after get_fred_rates has returned fred
get_fred_closing_rates(fred, resp_2y, resp_3m) ==
    IF ~TruthyDict(fred) \/ AllNone(fred)
    THEN get_additional_treasury_rates(resp_2y, resp_3m)
    ELSE [ret |-> fred, log |-> <<>>, exc |-> FALSE]

\* ----------------------------------------------------- Narrative Synthesizer
NarrativeText == "Yields and crypto diverged."

\* message.content[0].text of the service's answers
Narratives == {NarrativeText, "  Yields and crypto diverged.  ", "   "}

ClaudeResponses == {Exception} \cup {[kind |-> "text", text |-> t] : t \in Narratives}

\* str.strip() on the modelled answers
Strip(t) == CASE t = "  Yields and crypto diverged.  " -> NarrativeText
              [] t = "   " -> ""
              [] OTHER -> t

\* variant of get_claude_analysis that asks the service without a client and
\* lets a failed call raise
get_claude_analysis_unguarded(client, resp) ==
    IF resp.kind = "text"
    THEN [ret |-> [text |-> Strip(resp.text)], log |-> <<Get("anthropic", "messages")>>, exc |-> FALSE]
    ELSE [ret |-> None, log |-> <<Get("anthropic", "messages")>>, exc |-> TRUE]

\* get_claude_analysis: None, or the stripped text (wrapped in a record)
get_claude_analysis(client, resp) ==
    IF ~client THEN [ret |-> None, log |-> <<>>, exc |-> FALSE]
    ELSE IF resp.kind = "text"
    THEN [ret |-> [text |-> Strip(resp.text)], log |-> <<Get("anthropic", "messages")>>, exc |-> FALSE]
    ELSE [ret |-> None, log |-> <<Get("anthropic", "messages")>>, exc |-> FALSE]

\* bool(claude_analysis): None and "" are false
TruthyText(x) == x # None /\ x.text # ""

\* ---------------------------------------------------------- Report Assembler
Blank == [kind |-> "blank"]
Header(text) == [kind |-> "header", text |-> text]
Text(text) == [kind |-> "text", text |-> text]

YieldHeaderClosing == "TREASURY YIELD UPDATE (Closing):"
YieldHeaderSpot == "TREASURY YIELD UPDATE:"
RatesHeaderClosing == "SHORT-TERM RATES (Closing):"
RatesHeaderSpot == "SHORT-TERM RATES:"
CorrelationHeader == "MARKET CORRELATION ANALYSIS:"
SummaryHeader == "MARKET SUMMARY:"

SellingPressure == "Rising Treasury yields may be contributing to crypto selling pressure as investors seek safer yields"
Resilience == "Despite rising yields, crypto showing resilience - risk appetite remains strong"
SupportingRally == "Falling Treasury yields supporting crypto rally as risk assets become more attractive"
LowerYields == "Lower yields not translating to crypto gains - other factors driving market sentiment"
Unavailable == "Market data analysis unavailable"

CannedSentences == {SellingPressure, Resilience, SupportingRally, LowerYields}

\* the sign of a percent change held as a fraction
Positive(p) == p.num * p.den > 0
Negative(p) == p.num * p.den < 0

\* sum(1 for data in crypto_data.values() if data and data[field] > 0)
CountPositive(crypto, field) ==
    Cardinality({i \in 1..Len(crypto) : Truthy(crypto[i].v) /\ Positive(crypto[i].v[field])})

\* sum(1 for data in crypto_data.values() if data and data[field] < 0)
CountNegative(crypto, field) ==
    Cardinality({i \in 1..Len(crypto) : Truthy(crypto[i].v) /\ Negative(crypto[i].v[field])})

\* variant of Sentiment in which a tie counts as bullish
SentimentTieBullish(crypto, field) ==
    LET crypto_positive == CountPositive(crypto, field)
        crypto_negative == CountNegative(crypto, field)
    IN IF crypto_positive >= crypto_negative THEN "bullish"
       ELSE IF crypto_negative > crypto_positive THEN "bearish"
       ELSE "mixed"

\* the sentiment computation shared by both assemblers
Sentiment(crypto, field) ==
    LET crypto_positive == CountPositive(crypto, field)
        crypto_negative == CountNegative(crypto, field)
    IN IF crypto_positive > crypto_negative THEN "bullish"
       ELSE IF crypto_negative > crypto_positive THEN "bearish"
       ELSE "mixed"

\* the day ordinal d is 2 November 2026 + (d - 1) days; day 1 is a Monday
Weekday(d) == (d - 1) % 7

\* strftime('%B %d, %Y') in the window the model uses
Strftime(d) == IF d >= 0 THEN [month |-> "November", day |-> d + 1, year |-> 2026]
               ELSE [month |-> "October", day |-> 32 + d, year |-> 2026]

\* variant of DataDate without the Sunday branch
DataDateNoSunday(current_date) ==
    IF Weekday(current_date) = 0 THEN current_date - 3
    ELSE current_date - 1

\* the previous trading day by the weekday rule
DataDate(current_date) ==
    IF Weekday(current_date) = 0 THEN current_date - 3
    ELSE IF Weekday(current_date) = 6 THEN current_date - 2
    ELSE current_date - 1

\* rate_name.replace('_', ' ').title()
Title(rate_name) == CASE rate_name = "fed_funds_rate" -> "Fed Funds Rate"
                      [] rate_name = "3_month_tbill" -> "3 Month Tbill"
                      [] rate_name = "2_year_treasury" -> "2 Year Treasury"

Emoji(x) == IF x > 0 THEN "green" ELSE "red"

\* variant of CannedSentence in which an unchanged yield counts as rising
CannedSentenceFlatRising(treasury, sentimentLabel) ==
    IF treasury.yield_change >= 0
    THEN IF sentimentLabel = "bearish" THEN SellingPressure ELSE Resilience
    ELSE IF sentimentLabel = "bullish" THEN SupportingRally ELSE LowerYields

\* the four-way decision table
CannedSentence(treasury, sentimentLabel) ==
    IF treasury.yield_change > 0
    THEN IF sentimentLabel = "bearish" THEN SellingPressure ELSE Resilience
    ELSE IF sentimentLabel = "bullish" THEN SupportingRally ELSE LowerYields

\* variant of AssetLines that prints a placeholder line for an absent asset
AssetLinesPlaceholder(crypto, i, priceField, pctField, suffix) ==
    [j \in 1..(Len(crypto) - i + 1) |->
        LET data == crypto[i + j - 1].v
        IN IF Truthy(data)
           THEN [kind |-> "asset", emoji |-> Emoji(data[pctField].num),
                 symbol |-> crypto[i + j - 1].k, price |-> Fmt2(data[priceField]),
                 pct |-> FmtPct(data[pctField]), suffix |-> suffix]
           ELSE [kind |-> "text", text |-> "N/A"]]

RECURSIVE AssetLines(_, _, _, _, _)
AssetLines(crypto, i, priceField, pctField, suffix) ==
    IF i > Len(crypto) THEN <<>>
    ELSE LET data == crypto[i].v
         IN (IF Truthy(data)
             THEN <<[kind |-> "asset", emoji |-> Emoji(data[pctField].num),
                     symbol |-> crypto[i].k, price |-> Fmt2(data[priceField]),
                     pct |-> FmtPct(data[pctField]), suffix |-> suffix]>>
             ELSE <<>>)
            \o AssetLines(crypto, i + 1, priceField, pctField, suffix)

YieldLine(treasury, suffix) ==
    [kind |-> "yield", label |-> "10Y Treasury", value |-> Fmt2(treasury.current_yield),
     change |-> Fmt2(treasury.yield_change), suffix |-> suffix]

RateLine(rate_name, data, suffix) ==
    [kind |-> "rate", emoji |-> Emoji(data.change), name |-> Title(rate_name),
     value |-> Fmt2(data.current_rate), change |-> Fmt2(data.change), suffix |-> suffix]

\* variant of YieldSection that keeps the header and prints a placeholder
YieldSectionPlaceholder(treasury, header, suffix) ==
    IF Truthy(treasury)
    THEN <<Blank, Header(header), YieldLine(treasury, suffix)>>
    ELSE <<Blank, Header(header), Text("10Y Treasury: N/A")>>

\* the yield section: rendered only when the record is present
YieldSection(treasury, header, suffix) ==
    IF Truthy(treasury)
    THEN <<Blank, Header(header), YieldLine(treasury, suffix)>>
    ELSE <<>>

\* variant of RateLineClosing that never appends the note
RateLineClosingNoNote(rate_name, data) ==
    RateLine(rate_name, data, "bps from previous close)")

\* a rate line of the closing variant: the note is appended when the record has one
RateLineClosing(rate_name, data) ==
    IF "note" \in DOMAIN data
    THEN [kind |-> "rate", emoji |-> Emoji(data.change), name |-> Title(rate_name),
          value |-> Fmt2(data.current_rate), change |-> Fmt2(data.change),
          suffix |-> "bps from previous close)", note |-> data.note]
    ELSE RateLine(rate_name, data, "bps from previous close)")

RECURSIVE RateLines(_, _, _)
RateLines(fred, i, closing) ==
    IF i > Len(fred) THEN <<>>
    ELSE LET data == fred[i].v
         IN (IF Truthy(data)
             THEN <<IF closing THEN RateLineClosing(fred[i].k, data)
                    ELSE RateLine(fred[i].k, data, "bps)")>>
             ELSE <<>>)
            \o RateLines(fred, i + 1, closing)

RiskAppetite(s) == IF s = "bullish" THEN "High" ELSE IF s = "bearish" THEN "Low" ELSE "Mixed"

KeyTakeaway(s) == IF s = "bullish" THEN "Risk-on environment favors crypto"
                  ELSE IF s = "bearish" THEN "Risk-off sentiment prevails"
                  ELSE "Mixed signals suggest cautious approach"

SummaryLines(s, hashtags) ==
    <<Blank, Header(SummaryHeader),
      [kind |-> "sentiment", text |-> s],
      [kind |-> "risk", text |-> RiskAppetite(s)],
      [kind |-> "takeaway", text |-> KeyTakeaway(s)],
      Blank, Text(hashtags)>>

\* variant of CorrelationBodyClosing that uses the narrative only when the
\* decision table has no data to work on
CorrelationBodyClosingCannedFirst(crypto, treasury, s, analysis) ==
    IF Truthy(treasury) /\ TruthyDict(crypto)
    THEN <<Text(CannedSentence(treasury, s))>>
    ELSE IF TruthyText(analysis) THEN <<[kind |-> "narrative", text |-> analysis.text]>>
    ELSE <<Text(Unavailable)>>

\* the correlation body of generate_market_recap
CorrelationBodyClosing(crypto, treasury, s, analysis) ==
    IF TruthyText(analysis) THEN <<[kind |-> "narrative", text |-> analysis.text]>>
    ELSE IF Truthy(treasury) /\ TruthyDict(crypto)
    THEN <<Text(CannedSentence(treasury, s))>>
    ELSE <<Text(Unavailable)>>

\* the correlation body of generate_market_analysis
CorrelationBodySpot(crypto, treasury, s) ==
    IF Truthy(treasury) /\ TruthyDict(crypto)
    THEN <<Text(CannedSentence(treasury, s))>>
    ELSE <<>>

\* generate_market_recap; current_date is datetime.now(), claude the service's answer
generate_market_recap(crypto, treasury, fred, client, current_date, claude) ==
    LET s == Sentiment(crypto, "price_change_pct")
        data_date_str == Strftime(DataDate(current_date))
        run_date_str == Strftime(current_date)
        analysis == get_claude_analysis(client, claude)
    IN [recap_text |->
            <<Blank,
              [kind |-> "title", text |-> "DAILY MARKET RECAP", date |-> data_date_str],
              [kind |-> "based_on", date |-> data_date_str],
              [kind |-> "generated", date |-> run_date_str],
              Blank, Header("CRYPTOCURRENCY PERFORMANCE (Day-over-Day):")>>
            \o AssetLines(crypto, 1, "current_close", "price_change_pct",
                          "% from previous close)")
            \o YieldSection(treasury, YieldHeaderClosing, "bps from previous close)")
            \o (IF TruthyDict(fred)
                THEN <<Blank, Header(RatesHeaderClosing)>> \o RateLines(fred, 1, TRUE)
                ELSE <<>>)
            \o <<Blank, Header(CorrelationHeader)>>
            \o CorrelationBodyClosing(crypto, treasury, s, analysis.ret)
            \o SummaryLines(s, "#Crypto ... #MarketRecap #ClosingPrices"),
        data_date |-> data_date_str,
        run_date |-> run_date_str,
        sentiment |-> s,
        claude_analysis |-> analysis.ret,
        log |-> analysis.log,
        exc |-> analysis.exc]

\* generate_market_analysis
generate_market_analysis(crypto, treasury, fred, current_date) ==
    LET s == Sentiment(crypto, "price_change_24h_pct")
    IN [report |->
            <<Blank,
              [kind |-> "title", text |-> "CRYPTO MARKET UPDATE", date |-> Strftime(current_date)],
              Blank, Header("CRYPTOCURRENCY PERFORMANCE (24h):")>>
            \o AssetLines(crypto, 1, "current_price", "price_change_24h_pct", "%)")
            \o YieldSection(treasury, YieldHeaderSpot, "bps)")
            \o (IF TruthyDict(fred)
                THEN <<Blank, Header(RatesHeaderSpot)>> \o RateLines(fred, 1, FALSE)
                ELSE <<>>)
            \o <<Blank, Header(CorrelationHeader)>>
            \o CorrelationBodySpot(crypto, treasury, s)
            \o SummaryLines(s, "#Crypto ... #TradFi #DeFi"),
        sentiment |-> s,
        claude_analysis |-> None,
        log |-> <<>>, exc |-> FALSE]

\* ------------------------------------------------ the responses of a full run
RunSeries == {<<1004>>, <<2006, 1004>>, <<1004, 2006>>}

RunCharts == {Exception} \cup
             {[kind |-> "prices", prices |-> q] : q \in RunSeries \cup {<<1004, 1004>>}}

RunCoins == CoinResponses \ {Exception}

RunSpot == SpotResponses({1004})

RunPrimary == {Exception, [kind |-> "note"], [kind |-> "error"], [kind |-> "unexpected"]}
              \cup {[kind |-> "data", data |-> DataList("desc", q)] :
                        q \in RunSeries \cup {<<1004, 1004>>}}
              \cup {TimeSeries(q) : q \in {<<1004>>, <<1004, 2006>>}}

RunFred == {Exception} \cup {[kind |-> "observations", observations |-> q] :
                               q \in {<<1004>>, <<2006, 1004>>}}

RunRates == {Exception} \cup {[kind |-> "data", data |-> DataList("desc", q)] :
                                q \in {<<1004>>, <<2006, 1004>>}}

\* the days the run is started on
RunDays == {3}

Keys == {"", "KEY"}

\* ------------------------------------------------------------------- the run
\* how the script is started: the report run, or (closing variant only) the
\* diagnostic mode selected by the command-line flag --test-treasury
Modes(v) ==
    IF v = "closing" THEN {[op |-> "run"], [op |-> "test_treasury"]} ELSE {[op |-> "run"]}

Init ==
    /\ variant \in {"closing", "spot"}
    /\ pc = "main"
    /\ api_key = ""
    /\ claude_client = FALSE
    /\ crypto_data = <<>>
    /\ treasury_data = None
    /\ fred_data = <<>>
    /\ idx = 1
    /\ calls = <<>>
    /\ sentiment = ""
    /\ now = 0
    /\ claude_analysis = None
    /\ report = <<>>
    /\ again = None
    /\ written = FALSE
    /\ env \in Modes(variant)

\* variant of main that goes on to the fetches with an empty credential
main_unchecked ==
    /\ pc = "main"
    /\ \E key \in Keys :
          /\ api_key' = key
          /\ IF env.op = "test_treasury"
             THEN pc' = "test_treasury" /\ claude_client' = FALSE
             ELSE /\ pc' = "crypto"
                  /\ \E client \in {variant = "closing" /\ claude_key # "" /\ usable :
                                       claude_key \in Keys, usable \in BOOLEAN} :
                        claude_client' = client
    /\ UNCHANGED <<variant, crypto_data, treasury_data, fred_data, idx, calls,
                   sentiment, now, claude_analysis, report, again, written, env>>

\* main(): the credential prompt(s) and the construction of the generator
main ==
    /\ pc = "main"
    /\ \E key \in Keys :
          /\ api_key' = key
          /\ IF key = ""
             THEN pc' = "aborted" /\ claude_client' = FALSE
             ELSE IF env.op = "test_treasury"
             THEN pc' = "test_treasury" /\ claude_client' = FALSE
             ELSE /\ pc' = "crypto"
                  /\ \E client \in {variant = "closing" /\ claude_key # "" /\ usable :
                                       claude_key \in Keys, usable \in BOOLEAN} :
                        claude_client' = client
    /\ UNCHANGED <<variant, crypto_data, treasury_data, fred_data, idx, calls,
                   sentiment, now, claude_analysis, report, again, written, env>>

\* test_treasury_api: one request to the yield provider, whose answer is
\* only printed; nothing is constructed, rendered or written
test_treasury_api ==
    /\ pc = "test_treasury"
    /\ \E resp \in RunPrimary :
          calls' = calls \o <<Get("alpha_vantage", "10year")>>
    /\ pc' = "tested"
    /\ UNCHANGED <<variant, api_key, claude_client, crypto_data, treasury_data, fred_data,
                   idx, sentiment, now, claude_analysis, report, again, written, env>>

\* the position after the loop over n items has handled item idx
LoopNext(n, after) ==
    IF idx < n THEN idx' = idx + 1 /\ pc' = pc
    ELSE idx' = 1 /\ pc' = after

\* one iteration of get_crypto_closing_prices / get_crypto_prices
get_crypto_step ==
    /\ pc = "crypto"
    /\ \E r \in IF variant = "closing"
                 THEN {ClosingAsset(crypto_ids[idx], chart, coin) :
                          chart \in RunCharts, coin \in RunCoins}
                 ELSE {SpotAsset(crypto_ids[idx], spot) : spot \in RunSpot} :
             /\ calls' = calls \o r.log
             /\ IF r.exc
                THEN pc' = "error" /\ UNCHANGED <<crypto_data, idx>>
                ELSE /\ crypto_data' = DictSet(crypto_data, crypto_ids[idx], r.rec)
                     /\ LoopNext(Len(crypto_ids), "treasury")
    /\ UNCHANGED <<variant, api_key, claude_client, treasury_data, fred_data,
                   sentiment, now, claude_analysis, report, again, written, env>>

\* treasury_data = self.get_treasury_yield()
get_treasury_step ==
    /\ pc = "treasury"
    /\ \E r \in IF variant = "closing"
                 THEN {get_treasury_yield(primary, fred) :
                          primary \in RunPrimary, fred \in RunFred}
                 ELSE {get_treasury_yield_spot(primary) : primary \in RunPrimary} :
             /\ calls' = calls \o r.log
             /\ IF r.exc
                THEN pc' = "error" /\ UNCHANGED treasury_data
                ELSE pc' = "rates" /\ treasury_data' = r.ret
    /\ UNCHANGED <<variant, api_key, claude_client, crypto_data, fred_data, idx,
                   sentiment, now, claude_analysis, report, again, written, env>>

\* one iteration of get_fred_rates
get_fred_rates_step ==
    /\ pc = "rates"
    /\ \E r \in IF variant = "closing"
                 THEN {ClosingFredSeries(fred_series[idx], fred) : fred \in RunFred}
                 ELSE {SpotFredSeries(fred_series[idx], fred) : fred \in RunFred} :
             /\ calls' = calls \o r.log
             /\ IF r.exc
                THEN pc' = "error" /\ UNCHANGED <<fred_data, idx>>
                ELSE /\ fred_data' = DictSet(fred_data, fred_series[idx], r.rec)
                     /\ LoopNext(Len(fred_series),
                                 IF variant = "closing" THEN "closing_rates" ELSE "assemble")
    /\ UNCHANGED <<variant, api_key, claude_client, crypto_data, treasury_data,
                   sentiment, now, claude_analysis, report, again, written, env>>

\* get_fred_closing_rates once get_fred_rates has returned
get_fred_closing_rates_step ==
    /\ pc = "closing_rates"
    /\ \E r \in {get_fred_closing_rates(fred_data, resp_2y, resp_3m) :
                    resp_2y \in RunRates, resp_3m \in RunRates} :
             /\ calls' = calls \o r.log
             /\ IF r.exc
                THEN pc' = "error" /\ UNCHANGED fred_data
                ELSE pc' = "assemble" /\ fred_data' = r.ret
    /\ UNCHANGED <<variant, api_key, claude_client, crypto_data, treasury_data, idx,
                   sentiment, now, claude_analysis, report, again, written, env>>

\* variant of Assembled whose text embeds the number of requests made so far
AssembledStamped(today, claude) ==
    IF variant = "closing"
    THEN LET r == generate_market_recap(crypto_data, treasury_data, fred_data,
                                        claude_client, today, claude)
         IN [text |-> Append(r.recap_text, [kind |-> "stamp", n |-> Len(calls)]),
             sentiment |-> r.sentiment,
             claude_analysis |-> r.claude_analysis, log |-> r.log, exc |-> r.exc]
    ELSE LET r == generate_market_analysis(crypto_data, treasury_data, fred_data, today)
         IN [text |-> Append(r.report, [kind |-> "stamp", n |-> Len(calls)]),
             sentiment |-> r.sentiment,
             claude_analysis |-> r.claude_analysis, log |-> r.log, exc |-> r.exc]

\* the assembler call of the variant, on the snapshot held in the state
Assembled(today, claude) ==
    IF variant = "closing"
    THEN LET r == generate_market_recap(crypto_data, treasury_data, fred_data,
                                        claude_client, today, claude)
         IN [text |-> r.recap_text, sentiment |-> r.sentiment,
             claude_analysis |-> r.claude_analysis, log |-> r.log, exc |-> r.exc]
    ELSE LET r == generate_market_analysis(crypto_data, treasury_data, fred_data, today)
         IN [text |-> r.report, sentiment |-> r.sentiment,
             claude_analysis |-> r.claude_analysis, log |-> r.log, exc |-> r.exc]

\* generate_market_recap / generate_market_analysis as called by the run, and
\* main() printing the returned text and writing it to the timestamped file
assemble_step ==
    /\ pc = "assemble"
    /\ \E today \in RunDays :
        \E r \in {Assembled(today, claude) : claude \in ClaudeResponses} :
             /\ calls' = calls \o r.log
             /\ now' = today
             /\ IF r.exc
                THEN pc' = "error" /\ UNCHANGED <<report, sentiment, claude_analysis, written>>
                ELSE /\ pc' = "done"
                     /\ report' = r.text
                     /\ sentiment' = r.sentiment
                     /\ claude_analysis' = r.claude_analysis
                     /\ written' = TRUE
    /\ UNCHANGED <<variant, api_key, claude_client, crypto_data, treasury_data,
                   fred_data, idx, again, env>>

Next ==
    \/ main
    \/ test_treasury_api
    \/ get_crypto_step
    \/ get_treasury_step
    \/ get_fred_rates_step
    \/ get_fred_closing_rates_step
    \/ assemble_step

Spec == Init /\ [][Next]_vars

\* -------------------------------------- a single adapter call, on any response
\* the payloads get_additional_treasury_rates can tell apart
RateResponses == {Exception, [kind |-> "unexpected"]} \cup
                 {[kind |-> "data", data |-> DataList("desc", q)] : q \in SeqsUpTo(Vals, MaxObs)}

\* the payloads with at most the two observations the adapter reads
RateResponsesRead == {r \in RateResponses : r.kind = "data" => Len(r.data) <= 2}

Orders == {"desc", "asc"}

\* self.fred_api_key as the constructor leaves it, or set by the embedding code
FredKeys == {None, [key |-> "FRED_KEY"]}

\* the days generate_market_recap is called on: one of each weekday
CallDays == 1..7

\* the snapshots handed to generate_market_recap, as the adapters build them
SnapshotCrypto ==
    {[i \in 1..Len(crypto_ids) |->
        [k |-> crypto_ids[i], v |-> ClosingAsset(crypto_ids[i], c, m).rec]] :
        c \in RunCharts, m \in RunCoins}

SnapshotTreasury == {get_treasury_yield(p, Exception).ret : p \in RunPrimary}

SnapshotFred == {get_additional_treasury_rates(a, a).ret : a \in RunRates}

CallEnvs ==
    {[op |-> "get_treasury_yield", primary |-> p, fred |-> f] :
        p \in AlphaVantageResponses(Vals, Orders), f \in FredResponses(Vals)}
    \cup {[op |-> "get_treasury_yield_spot", primary |-> p] :
        p \in AlphaVantageResponses(Vals, Orders)}
    \cup {[op |-> "get_treasury_from_fred", fred |-> f] : f \in FredResponses(Vals)}
    \cup {[op |-> "get_crypto_closing_prices", chart |-> c, coin |-> m] :
        c \in ChartResponses(Vals), m \in CoinResponses}
    \cup {[op |-> "get_crypto_prices", coin |-> m] :
        m \in SpotResponses(Quotes \cup {BadValue})}
    \cup {[op |-> "get_fred_rates", fred |-> f] : f \in FredResponses(Vals)}
    \cup {[op |-> "get_additional_treasury_rates", resp_2y |-> a, resp_3m |-> b] :
        a \in RateResponses, b \in RateResponsesRead}
    \cup {[op |-> "get_fred_closing_rates", fred_key |-> key, freds |-> <<f1, f2, f3>>,
           resp_2y |-> a, resp_3m |-> b] :
        key \in FredKeys, f1 \in RunFred, f2 \in RunFred, f3 \in RunFred,
        a \in RunRates, b \in RunRates}
    \cup {[op |-> "generate_market_recap", crypto |-> c, treasury |-> t, fred |-> f,
           today |-> d] :
        c \in SnapshotCrypto, t \in SnapshotTreasury, f \in SnapshotFred, d \in CallDays}

SpotOps == {"get_treasury_yield_spot", "get_crypto_prices", "get_fred_rates"}

InitCall ==
    /\ env \in CallEnvs
    /\ variant = IF env.op \in SpotOps THEN "spot" ELSE "closing"
    /\ pc = "call"
    /\ api_key = "KEY"
    /\ claude_client = FALSE
    /\ crypto_data = IF env.op = "generate_market_recap" THEN env.crypto ELSE <<>>
    /\ treasury_data = IF env.op = "generate_market_recap" THEN env.treasury ELSE None
    /\ fred_data = IF env.op = "generate_market_recap" THEN env.fred ELSE <<>>
    /\ idx = 1
    /\ calls = <<>>
    /\ sentiment = ""
    /\ now = 0
    /\ claude_analysis = None
    /\ report = <<>>
    /\ again = None
    /\ written = FALSE

Returned(r) == pc' = IF r.exc THEN "raised" ELSE "returned"

call_get_treasury_yield ==
    /\ pc = "call" /\ env.op = "get_treasury_yield"
    /\ LET r == get_treasury_yield(env.primary, env.fred)
       IN treasury_data' = r.ret /\ calls' = r.log /\ Returned(r)
    /\ UNCHANGED <<variant, api_key, claude_client, crypto_data, fred_data, idx,
                   sentiment, now, claude_analysis, report, again, written, env>>

call_get_treasury_yield_spot ==
    /\ pc = "call" /\ env.op = "get_treasury_yield_spot"
    /\ LET r == get_treasury_yield_spot(env.primary)
       IN treasury_data' = r.ret /\ calls' = r.log /\ Returned(r)
    /\ UNCHANGED <<variant, api_key, claude_client, crypto_data, fred_data, idx,
                   sentiment, now, claude_analysis, report, again, written, env>>

call_get_treasury_from_fred ==
    /\ pc = "call" /\ env.op = "get_treasury_from_fred"
    /\ LET r == get_treasury_from_fred(env.fred)
       IN treasury_data' = r.ret /\ calls' = r.log /\ Returned(r)
    /\ UNCHANGED <<variant, api_key, claude_client, crypto_data, fred_data, idx,
                   sentiment, now, claude_analysis, report, again, written, env>>

\* the first iteration of the price loop of either variant
call_get_crypto ==
    /\ pc = "call" /\ env.op \in {"get_crypto_closing_prices", "get_crypto_prices"}
    /\ LET r == IF variant = "closing" THEN ClosingAsset(crypto_ids[1], env.chart, env.coin)
                ELSE SpotAsset(crypto_ids[1], env.coin)
       IN /\ crypto_data' = DictSet(crypto_data, crypto_ids[1], r.rec)
          /\ calls' = r.log /\ Returned(r)
    /\ UNCHANGED <<variant, api_key, claude_client, treasury_data, fred_data, idx,
                   sentiment, now, claude_analysis, report, again, written, env>>

\* the first iteration of the rate loop of the spot variant
call_get_fred_rates ==
    /\ pc = "call" /\ env.op = "get_fred_rates"
    /\ LET r == SpotFredSeries(fred_series[1], env.fred)
       IN /\ fred_data' = DictSet(fred_data, fred_series[1], r.rec)
          /\ calls' = r.log /\ Returned(r)
    /\ UNCHANGED <<variant, api_key, claude_client, crypto_data, treasury_data, idx,
                   sentiment, now, claude_analysis, report, again, written, env>>

call_get_additional_treasury_rates ==
    /\ pc = "call" /\ env.op = "get_additional_treasury_rates"
    /\ LET r == get_additional_treasury_rates(env.resp_2y, env.resp_3m)
       IN fred_data' = r.ret /\ calls' = r.log /\ Returned(r)
    /\ UNCHANGED <<variant, api_key, claude_client, crypto_data, treasury_data, idx,
                   sentiment, now, claude_analysis, report, again, written, env>>

\* get_fred_closing_rates, with get_fred_rates run under the credential of env
call_get_fred_closing_rates ==
    /\ pc = "call" /\ env.op = "get_fred_closing_rates"
    /\ LET primary == get_fred_rates(env.fred_key, env.freds)
           r == get_fred_closing_rates(primary.ret, env.resp_2y, env.resp_3m)
       IN fred_data' = r.ret /\ calls' = primary.log \o r.log /\ Returned(r)
    /\ UNCHANGED <<variant, api_key, claude_client, crypto_data, treasury_data, idx,
                   sentiment, now, claude_analysis, report, again, written, env>>

\* generate_market_recap on the snapshot of env, on the day of env
call_generate_market_recap ==
    /\ pc = "call" /\ env.op = "generate_market_recap"
    /\ \E r \in {generate_market_recap(crypto_data, treasury_data, fred_data,
                                         claude_client, env.today, claude) :
                     claude \in ClaudeResponses} :
          /\ report' = r.recap_text /\ sentiment' = r.sentiment
          /\ claude_analysis' = r.claude_analysis
          /\ now' = env.today /\ calls' = r.log /\ Returned(r)
    /\ UNCHANGED <<variant, api_key, claude_client, crypto_data, treasury_data,
                   fred_data, idx, again, written, env>>

NextCall ==
    \/ call_get_treasury_yield
    \/ call_get_treasury_yield_spot
    \/ call_get_treasury_from_fred
    \/ call_get_crypto
    \/ call_get_fred_rates
    \/ call_get_additional_treasury_rates
    \/ call_get_fred_closing_rates
    \/ call_generate_market_recap

SpecCall == InitCall /\ [][NextCall]_vars

\* ----------------------------------- the assembler called twice by one caller
\* a second call of the assembler with the arguments and the date of the first
assemble_again ==
    /\ pc = "done" /\ again = None
    /\ \E r \in {Assembled(now, claude) : claude \in ClaudeResponses} :
             /\ calls' = calls \o r.log
             /\ again' = [text |-> r.text, claude_analysis |-> r.claude_analysis]
             /\ pc' = "done_twice"
    /\ UNCHANGED <<variant, api_key, claude_client, crypto_data, treasury_data,
                   fred_data, idx, sentiment, now, claude_analysis, report, written, env>>

NextTwice == Next \/ assemble_again

SpecTwice == Init /\ [][NextTwice]_vars

\* ------------------------------------------------------------------ fairness
\* every request has a timeout and no step waits on another, so a run that
\* can take a step takes it
FairSpec == Spec /\ WF_vars(Next)

\* ================================================================ properties
\* ---------------------------------------------------- reading a rendered text
Rendered == report # <<>>

LinesOf(text, kind) == SelectSeq(text, LAMBDA l : l.kind = kind)

HeaderAt(text, title) == {i \in 1..Len(text) : text[i] = Header(title)}

\* the lines of the section headed by title, up to the next blank line
SectionBody(text, title) ==
    LET h == CHOOSE i \in HeaderAt(text, title) : TRUE
        stop == CHOOSE j \in (h + 1)..Len(text) :
                    /\ text[j] = Blank
                    /\ \A m \in (h + 1)..(j - 1) : text[m] # Blank
    IN SubSeq(text, h + 1, stop - 1)

PresentRecords(d) == SelectSeq(d, LAMBDA e : e.v # None)

PctOf(rec) == IF variant = "closing" THEN rec.price_change_pct ELSE rec.price_change_24h_pct

Gainers == {i \in 1..Len(crypto_data) :
               crypto_data[i].v # None /\ PctOf(crypto_data[i].v).num * PctOf(crypto_data[i].v).den > 0}

Losers == {i \in 1..Len(crypto_data) :
              crypto_data[i].v # None /\ PctOf(crypto_data[i].v).num * PctOf(crypto_data[i].v).den < 0}

Absent == {i \in 1..Len(crypto_data) : crypto_data[i].v = None}

\* C1: the sentiment of a rendered report is bullish iff more present records
\* rose than fell, bearish iff more fell than rose, and mixed otherwise; the
\* summary shows that label.
C1_SentimentMajority ==
    Rendered =>
        /\ (sentiment = "bullish") <=> (Cardinality(Gainers) > Cardinality(Losers))
        /\ (sentiment = "bearish") <=> (Cardinality(Losers) > Cardinality(Gainers))
        /\ (sentiment = "mixed") <=> (Cardinality(Gainers) = Cardinality(Losers))
        /\ LinesOf(report, "sentiment") = <<[kind |-> "sentiment", text |-> sentiment]>>

\* a tie with data: one record rose, one fell, one is absent
C1_Witness ==
    /\ Rendered
    /\ Cardinality(Gainers) = 1 /\ Cardinality(Losers) = 1 /\ Cardinality(Absent) = 1
    /\ sentiment = "mixed"

\* the correlation body of the rendered report
Body == SectionBody(report, CorrelationHeader)

AllAssetsAbsent == \A i \in 1..Len(crypto_data) : crypto_data[i].v = None

\* C4: without narrative text, when the yield record is absent or every asset
\* record is absent, the correlation body is the "analysis unavailable" line
\* and none of the canned sentences (both variants).
C4_UnavailableWhenDataAbsent ==
    (Rendered /\ claude_analysis = None /\ (treasury_data = None \/ AllAssetsAbsent))
        => Body = <<Text(Unavailable)>>

\* C5: without narrative text (client unset or call failed), with the yield
\* record and at least one asset record present, the correlation body is the
\* one canned sentence the pair (yield_change > 0, sentiment) selects.
C5_CannedByTable ==
    (Rendered /\ claude_analysis = None /\ treasury_data # None /\ ~AllAssetsAbsent)
        => /\ Len(Body) = 1 /\ Body[1].kind = "text" /\ Body[1].text \in CannedSentences
           /\ (treasury_data.yield_change > 0 /\ sentiment = "bearish")
                  => Body[1].text = SellingPressure
           /\ (treasury_data.yield_change > 0 /\ sentiment \in {"bullish", "mixed"})
                  => Body[1].text = Resilience
           /\ (treasury_data.yield_change <= 0 /\ sentiment = "bullish")
                  => Body[1].text = SupportingRally
           /\ (treasury_data.yield_change <= 0 /\ sentiment \in {"bearish", "mixed"})
                  => Body[1].text = LowerYields

\* the narrative call was made and failed, the yield is unchanged, the assets fell
C5_Witness ==
    /\ Rendered /\ claude_client /\ claude_analysis = None
    /\ Get("anthropic", "messages") \in {calls[i] : i \in 1..Len(calls)}
    /\ treasury_data # None /\ treasury_data.yield_change = 0
    /\ sentiment = "bearish"
    /\ Body = <<Text(LowerYields)>>

YieldHeaders == {Header(YieldHeaderClosing), Header(YieldHeaderSpot)}

\* C6: a report rendered without a yield record has no yield header and no
\* yield line or placeholder; with a yield record it has the header once,
\* followed by the one yield line.
C6_YieldSection ==
    Rendered =>
        LET heads == {i \in 1..Len(report) : report[i] \in YieldHeaders}
            yields == {i \in 1..Len(report) : report[i].kind = "yield"}
            mentions == {i \in 1..Len(report) :
                            report[i].kind = "text" /\ report[i].text = "10Y Treasury: N/A"}
        IN IF treasury_data = None
           THEN heads = {} /\ yields = {} /\ mentions = {}
           ELSE /\ Cardinality(heads) = 1 /\ Cardinality(yields) = 1 /\ mentions = {}
                /\ \A h \in heads : yields = {h + 1}

\* a report without the yield record, and with rate records
C6_Witness ==
    /\ Rendered /\ treasury_data = None
    /\ PresentRecords(fred_data) # <<>>
    /\ ~AllAssetsAbsent

\* C7: the line of every present rate record ends with the record's note,
\* verbatim, exactly when the record carries one.
C7_NoteRendered ==
    Rendered =>
        LET lines == LinesOf(report, "rate")
            recs == PresentRecords(fred_data)
        IN /\ Len(lines) = Len(recs)
           /\ \A j \in 1..Len(recs) :
                 /\ lines[j].name = Title(recs[j].k)
                 /\ ("note" \in DOMAIN lines[j]) <=> ("note" \in DOMAIN recs[j].v)
                 /\ ("note" \in DOMAIN recs[j].v) => lines[j].note = recs[j].v.note

\* an approximated policy rate next to a record without a note
C7_Witness ==
    /\ Rendered
    /\ \E j \in 1..Len(fred_data) :
          fred_data[j].v # None /\ "note" \in DOMAIN fred_data[j].v
    /\ \E j \in 1..Len(fred_data) :
          fred_data[j].v # None /\ "note" \notin DOMAIN fred_data[j].v

\* ----------------------------------------------- a single adapter call returned
YieldCallReturned == pc = "returned" /\ env.op = "get_treasury_yield"

FredRequests == {i \in 1..Len(calls) : calls[i].provider = "fred"}

\* C2: when the primary response carries the rate-limit marker, the result of
\* get_treasury_yield is the result get_treasury_from_fred gives for the
\* secondary provider's response, and nothing is raised.
C2_RateLimitFallsBack ==
    /\ (pc = "raised") => (env.op # "get_treasury_yield")
    /\ (YieldCallReturned /\ env.primary.kind = "note")
           => treasury_data = get_treasury_from_fred(env.fred).ret

PrimaryFailed ==
    \/ env.primary.kind \in {"exception", "error"}
    \/ env.primary.kind = "data" /\ Len(env.primary.data) < 2
    \/ env.primary.kind = "ts" /\ Len(env.primary.series) < 2

\* C3: on every primary failure (exception, error payload, fewer than two
\* observations in either shape) the secondary provider is queried exactly
\* once, the result is absent only if the secondary fetch gives nothing, and
\* no request follows the secondary one.
C3_FallbackOnEveryPrimaryFailure ==
    (YieldCallReturned /\ PrimaryFailed)
        => /\ Cardinality(FredRequests) = 1
           /\ (treasury_data = None) => (get_treasury_from_fred(env.fred).ret = None)
           /\ calls[Len(calls)].provider = "fred"
           /\ Len(calls) = 2

\* change = current - previous, and pct = change / previous * 100, or 0 when
\* previous is 0
DeltaHolds(current, previous, change, pct) ==
    /\ change = current - previous
    /\ (previous # 0) => (pct.den # 0 /\ pct.num * previous = change * 100 * pct.den)
    /\ (previous = 0) => (pct.num = 0)

YieldDelta ==
    (treasury_data # None)
        => DeltaHolds(treasury_data.current_yield, treasury_data.previous_yield,
                      treasury_data.yield_change, treasury_data.yield_change_pct)

RateDelta ==
    \A i \in 1..Len(fred_data) :
        LET r == fred_data[i].v
        IN (r # None) => DeltaHolds(r.current_rate, r.previous_rate, r.change, r.change_pct)

ClosingAssetDelta ==
    \A i \in 1..Len(crypto_data) :
        LET r == crypto_data[i].v
        IN (variant = "closing" /\ r # None)
               => DeltaHolds(r.current_close, r.previous_close, r.price_change,
                             r.price_change_pct)

\* the spot record read against the previous value its absolute change implies
SpotAssetDelta ==
    \A i \in 1..Len(crypto_data) :
        LET r == crypto_data[i].v
        IN (variant = "spot" /\ r # None)
               => DeltaHolds(r.current_price, r.current_price - r.price_change_24h_usd,
                             r.price_change_24h_usd, r.price_change_24h_pct)

\* the spot record carries the provider's figures as they came
SpotAssetVerbatim ==
    \A i \in 1..Len(crypto_data) :
        LET r == crypto_data[i].v
        IN (variant = "spot" /\ r # None)
               => /\ r.current_price = env.coin.current_price
                  /\ r.price_change_24h_pct = env.coin.price_change_percentage_24h
                  /\ r.price_change_24h_usd = env.coin.price_change_24h
                  /\ DOMAIN r \cap {"previous_close", "previous_price"} = {}

\* C9 as stated: the records of every adapter path, the spot price records
\* included, satisfy the delta relation.
C9_DeltaEveryRecord ==
    (pc = "returned") => (YieldDelta /\ RateDelta /\ ClosingAssetDelta /\ SpotAssetDelta)

\* C9 amended: closing-price asset records and all yield and rate records
\* (primary, secondary, approximated policy rate) satisfy the delta relation;
\* a spot price record holds the provider's own change figures unchanged.
C9_DeltaComputedRecords ==
    (pc = "returned") => (YieldDelta /\ RateDelta /\ ClosingAssetDelta /\ SpotAssetVerbatim)

\* the approximated policy rate copied from a 3-month record whose previous
\* value is 0
C9_Witness ==
    /\ pc = "returned" /\ env.op = "get_additional_treasury_rates"
    /\ LET ff == DictGet(fred_data, "fed_funds_rate")
       IN ff # None /\ ff.previous_rate = 0 /\ ff.change # 0 /\ ff.change_pct.num = 0

SummaryRendered ==
    /\ HeaderAt(report, SummaryHeader) # {}
    /\ LinesOf(report, "sentiment") = <<[kind |-> "sentiment", text |-> sentiment]>>

\* C10: a run that got past the credential prompt reaches the assembled report
\* with its summary section, whatever each fetch and the narrative call did,
\* and no exception reaches the driver.
C10_AlwaysReport ==
    /\ [](pc # "error")
    /\ (pc = "crypto") ~> (pc = "done" /\ SummaryRendered)

\* every fetch failed and the narrative call failed: the report still has its
\* summary
C10_Witness ==
    /\ pc = "done" /\ SummaryRendered
    /\ AllAssetsAbsent /\ treasury_data = None /\ PresentRecords(fred_data) = <<>>
    /\ claude_client /\ claude_analysis = None

\* ------------------------------------------------- fewer than two observations
ShortData(resp) == resp.kind = "data" /\ Len(resp.data) < 2

ShortPrimary == ShortData(env.primary) \/ (env.primary.kind = "ts" /\ Len(env.primary.series) < 2)

ShortFred == env.fred.kind = "observations" /\ Len(env.fred.observations) < 2

\* the adapters other than the spot variant's get_treasury_yield give absent
\* for a series of fewer than two observations
ShortSeriesAbsentElsewhere ==
    /\ (env.op = "get_treasury_yield" /\ ShortPrimary) => treasury_data = None
    /\ (env.op = "get_treasury_yield" /\ env.primary.kind = "exception" /\ ShortFred)
           => treasury_data = None
    /\ (env.op = "get_treasury_from_fred" /\ ShortFred) => treasury_data = None
    /\ (env.op = "get_crypto_closing_prices" /\ env.chart.kind = "prices"
           /\ Len(env.chart.prices) < 2) => DictGet(crypto_data, crypto_ids[1]) = None
    /\ (env.op = "get_fred_rates" /\ ShortFred) => DictGet(fred_data, fred_series[1]) = None
    /\ (env.op = "get_additional_treasury_rates" /\ ShortData(env.resp_2y))
           => DictGet(fred_data, "2_year_treasury") = None
    /\ (env.op = "get_additional_treasury_rates" /\ ShortData(env.resp_3m))
           => /\ DictGet(fred_data, "3_month_tbill") = None
              /\ DictGet(fred_data, "fed_funds_rate") = None

RateHeaders == {Header(RatesHeaderClosing), Header(RatesHeaderSpot)}

RateHeaderLines == {i \in 1..Len(report) : report[i] \in RateHeaders}

\* C12: the rate header is rendered exactly when at least one rate record is
\* present; it is then followed by one line per present record, and a mapping
\* of absent records only gives no rate header.
C12_RateHeaderIffRecord ==
    Rendered =>
        LET recs == PresentRecords(fred_data)
        IN /\ (RateHeaderLines # {}) <=> (recs # <<>>)
           /\ \A h \in RateHeaderLines :
                 /\ Len(report) >= h + Len(recs)
                 /\ \A j \in 1..Len(recs) : report[h + j].kind = "rate"

\* -------------------------------------------- requests of the rate adapter
SeriesNames == {fred_series[j] : j \in 1..Len(fred_series)}

\* the requests get_fred_rates has made to the primary rate provider
RateRequests == SelectSeq(calls, LAMBDA c : c.op = "GET" /\ c.provider = "fred"
                                              /\ c.item \in SeriesNames)

\* get_fred_rates has returned its mapping and nothing has replaced it yet
PrimaryMappingReturned ==
    \/ variant = "closing" /\ pc = "closing_rates"
    \/ variant = "spot" /\ pc = "assemble"

NoCredentialNoRequest ==
    /\ RateRequests = <<>>
    /\ PrimaryMappingReturned
           => (AllNone(fred_data) /\ DictKeys(fred_data) = SeriesNames)

SecondaryRequests == SelectSeq(calls, LAMBDA c : c.op = "GET" /\ c.provider = "alpha_vantage")

\* C14: get_fred_closing_rates requests the two short maturities from the
\* secondary provider exactly when every entry of the primary mapping is
\* absent; otherwise it returns the primary mapping unchanged, without a
\* secondary request and without an approximation note.
C14_FallbackIffAllAbsent ==
    (pc = "returned" /\ env.op = "get_fred_closing_rates")
        => LET primary == get_fred_rates(env.fred_key, env.freds).ret
               present == PresentRecords(primary)
           IN /\ (SecondaryRequests # <<>>) <=> (present = <<>>)
              /\ (present = <<>>)
                     => SecondaryRequests = <<Get("alpha_vantage", "2year"),
                                              Get("alpha_vantage", "3month")>>
              /\ (present # <<>>)
                     => /\ fred_data = primary
                        /\ \A i \in 1..Len(fred_data) :
                              fred_data[i].v # None => "note" \notin DOMAIN fred_data[i].v

\* the primary mapping has one present and one absent entry
C14_Witness ==
    /\ pc = "returned" /\ env.op = "get_fred_closing_rates"
    /\ PresentRecords(fred_data) # <<>>
    /\ \E i \in 1..Len(fred_data) : fred_data[i].v = None
    /\ SecondaryRequests = <<>>
    /\ RateRequests # <<>>

\* ------------------------------------------------- the approximated policy rate
FallbackReturned == pc = "returned" /\ env.op = "get_additional_treasury_rates"

CopyOf(ff, src) ==
    /\ ff.current_rate = src.current_rate
    /\ ff.previous_rate = src.previous_rate
    /\ ff.change = src.change

KeysOf(d) == [i \in 1..Len(d) |-> d[i].k]

\* a fetch that gives no record: exception, unusable payload, short series
AssetFailed(chart, coin) ==
    chart.kind # "prices" \/ Len(chart.prices) < 2 \/ coin.kind # "coin"

SpotAssetFailed(coin) == coin.kind # "coin"

SeriesFailed(fred) == fred.kind # "observations" \/ Len(fred.observations) < 2

\* the loop over items handled item idx: it moved on, kept the earlier
\* entries, requested the item, and stored under the item's key the value v
LoopHandled(items, d, dNext, after) ==
    /\ IF idx < Len(items) THEN pc' = pc /\ idx' = idx + 1 ELSE pc' = after
    /\ Len(dNext) = idx /\ SubSeq(dNext, 1, idx - 1) = d
    /\ dNext[idx].k = items[idx]
    /\ Len(calls') > Len(calls) /\ SubSeq(calls', 1, Len(calls)) = calls
    /\ calls'[Len(calls) + 1].op = "GET" /\ calls'[Len(calls) + 1].item = items[idx]

\* one iteration of the price loop of either variant
IsolatedAssetStep ==
    (pc = "crypto")
        => /\ LoopHandled(crypto_ids, crypto_data, crypto_data', "treasury")
           /\ IF variant = "closing"
              THEN \E chart \in RunCharts, coin \in RunCoins :
                      /\ (crypto_data'[idx].v = None) <=> AssetFailed(chart, coin)
                      /\ crypto_data'[idx].v = ClosingAsset(crypto_ids[idx], chart, coin).rec
              ELSE \E coin \in RunSpot :
                      /\ (crypto_data'[idx].v = None) <=> SpotAssetFailed(coin)
                      /\ crypto_data'[idx].v = SpotAsset(crypto_ids[idx], coin).rec

\* one iteration of the rate loop of the spot variant
IsolatedRateStep ==
    (pc = "rates" /\ variant = "spot")
        => /\ LoopHandled(fred_series, fred_data, fred_data', "assemble")
           /\ \E fred \in RunFred :
                 /\ (fred_data'[idx].v = None) <=> SeriesFailed(fred)
                 /\ fred_data'[idx].v = SpotFredSeries(fred_series[idx], fred).rec

\* the mappings of the finished loops have one entry per configured item
EntriesComplete ==
    /\ (env.op = "run" /\ pc \in {"treasury", "rates", "closing_rates", "assemble", "done"})
           => KeysOf(crypto_data) = crypto_ids
    /\ (env.op = "run" /\ pc \in {"assemble", "done"})
           => DictKeys(fred_data) = {fred_series[i] : i \in 1..Len(fred_series)}

NarrativeCalls == SelectSeq(calls, LAMBDA c : c.provider = "anthropic")

\* the text the assembler of the variant gives for the snapshot of the state
\* when no client is configured
ReportWithoutClient ==
    IF variant = "closing"
    THEN generate_market_recap(crypto_data, treasury_data, fred_data, FALSE, now,
                               Exception).recap_text
    ELSE generate_market_analysis(crypto_data, treasury_data, fred_data, now).report

\* C17: without a client the text-generation service is not called and the
\* narrative is absent; a failed call gives absent and raises nothing; in both
\* cases the report is the one rendered for the snapshot with the service
\* unavailable; the service is called at most once per report.
C17_NarrativeOptional ==
    (env.op = "run")
        => /\ pc # "error"
           /\ Len(NarrativeCalls) <= 1
           /\ ~claude_client => (NarrativeCalls = <<>> /\ claude_analysis = None)
           /\ (Rendered /\ claude_client) => Len(NarrativeCalls) = 1
           /\ (Rendered /\ claude_analysis = None) => report = ReportWithoutClient

\* the call was made and failed, with yield and asset data in the snapshot
C17_Witness ==
    /\ env.op = "run" /\ Rendered /\ claude_client
    /\ claude_analysis = None /\ Len(NarrativeCalls) = 1
    /\ treasury_data # None /\ ~AllAssetsAbsent
    /\ report = ReportWithoutClient

\* ------------------------------------------------------ the credential prompt
Fetching == {"crypto", "treasury", "rates", "closing_rates", "assemble", "done"}

\* C18: with an empty mandatory credential the run aborts at the prompt:
\* nothing is constructed, no request is made, no report is rendered or
\* written; a report run with a non-empty credential always goes on to the
\* fetches.
C18_EmptyCredentialAborts ==
    /\ (pc # "main" /\ api_key = "")
           => /\ pc = "aborted"
              /\ calls = <<>> /\ ~claude_client
              /\ crypto_data = <<>> /\ treasury_data = None /\ fred_data = <<>>
              /\ report = <<>> /\ ~written
    /\ (pc = "aborted") => (api_key = "")
    /\ (env.op = "run" /\ pc # "main" /\ api_key # "") => pc \in Fetching

\* the spot variant's run aborted at the prompt
C18_Witness ==
    /\ env.op = "run" /\ variant = "spot"
    /\ pc = "aborted" /\ api_key = "" /\ calls = <<>> /\ report = <<>>

\* ------------------------------------------------------------ section order
PerformanceHeaders == {Header("CRYPTOCURRENCY PERFORMANCE (Day-over-Day):"),
                       Header("CRYPTOCURRENCY PERFORMANCE (24h):")}

IsTitle(l) == l.kind \in {"title", "based_on", "generated"}
IsAssetPart(l) == l \in PerformanceHeaders \/ l.kind = "asset"
IsYieldPart(l) == l \in YieldHeaders \/ l.kind = "yield"
IsRatePart(l) == l \in RateHeaders \/ l.kind = "rate"
IsCorrelationPart(l) ==
    \/ l = Header(CorrelationHeader)
    \/ l.kind = "narrative"
    \/ l.kind = "text" /\ l.text \in CannedSentences \cup {Unavailable}
IsSummaryPart(l) == l = Header(SummaryHeader) \/ l.kind \in {"sentiment", "risk", "takeaway"}

\* the place of a line's section in the order the report is to have, 0 for
\* blank lines and the hashtags
SectionOf(l) == CASE IsTitle(l) -> 1
                  [] IsAssetPart(l) -> 2
                  [] IsYieldPart(l) -> 3
                  [] IsRatePart(l) -> 4
                  [] IsCorrelationPart(l) -> 5
                  [] IsSummaryPart(l) -> 6
                  [] OTHER -> 0

SectionLines == {i \in 1..Len(report) : SectionOf(report[i]) # 0}

\* the lines under the performance header, up to the next blank line
PerformanceBody ==
    LET h == CHOOSE i \in 1..Len(report) : report[i] \in PerformanceHeaders
        stop == CHOOSE j \in (h + 1)..Len(report) :
                    /\ report[j] = Blank
                    /\ \A m \in (h + 1)..(j - 1) : report[m] # Blank
    IN SubSeq(report, h + 1, stop - 1)

\* C19: the sections of a rendered report come in the order title, asset
\* lines, yield, rates, correlation analysis, summary; the title, the
\* correlation header and the summary are in every report; the lines under
\* the performance header are the lines of the present assets, in order, and
\* nothing else.
C19_SectionOrder ==
    Rendered =>
        /\ \A a \in SectionLines : \A b \in SectionLines :
              (a < b) => SectionOf(report[a]) <= SectionOf(report[b])
        /\ Cardinality({i \in 1..Len(report) : report[i].kind = "title"}) = 1
        /\ Cardinality(HeaderAt(report, CorrelationHeader)) = 1
        /\ Cardinality(HeaderAt(report, SummaryHeader)) = 1
        /\ \A k \in {"sentiment", "risk", "takeaway"} : Len(LinesOf(report, k)) = 1
        /\ Cardinality({i \in 1..Len(report) : report[i] \in PerformanceHeaders}) = 1
        /\ Len(PerformanceBody) = Len(PresentRecords(crypto_data))
        /\ \A j \in 1..Len(PerformanceBody) :
              /\ PerformanceBody[j].kind = "asset"
              /\ PerformanceBody[j].symbol = PresentRecords(crypto_data)[j].k

\* every section is in the report, and the asset in the middle is absent
C19_Witness ==
    /\ Rendered /\ Len(crypto_data) = 3
    /\ crypto_data[1].v # None /\ crypto_data[2].v = None /\ crypto_data[3].v # None
    /\ treasury_data # None /\ PresentRecords(fred_data) # <<>>
    /\ {SectionOf(report[i]) : i \in SectionLines} = 1..6

\* ------------------------------------------------------- the narrative body
NarrativeBody == <<[kind |-> "narrative", text |-> claude_analysis.text]>>

\* C20 as stated: whenever the synthesizer returned a text, the correlation
\* body is that text alone, also when the text is empty after trimming.
C20_NarrativeIsBody ==
    (Rendered /\ claude_analysis # None) => Body = NarrativeBody

\* C20 amended: a returned text that is not empty after trimming is the whole
\* correlation body, whatever the yield and asset data are; a text that is
\* empty after trimming is treated as no narrative, and the report is the one
\* rendered without the synthesizer.
C20_NonEmptyNarrativeIsBody ==
    (Rendered /\ claude_analysis # None)
        => IF claude_analysis.text # ""
           THEN Body = NarrativeBody
           ELSE report = ReportWithoutClient /\ Body # NarrativeBody

\* a narrative was returned for a snapshot without yield and asset data
C20_Witness ==
    /\ Rendered /\ claude_analysis # None /\ claude_analysis.text = NarrativeText
    /\ treasury_data = None /\ AllAssetsAbsent
    /\ Body = NarrativeBody

\* ------------------------------------------------------------------- C21
\* the positions of the log that hold a request of the price feed loop
AssetRequests == {i \in 1..Len(calls) :
                    calls[i].op = "GET"
                    /\ calls[i].provider \in {"coingecko_market_chart", "coingecko_coin"}}

\* a delay lies in the log between positions i and j
DelayBetween(i, j) == \E k \in (i + 1)..(j - 1) : calls[k].op = "sleep"

\* C21: in the price feed loop a delay lies between the requests of any two
\* successive assets, whatever the outcome of the earlier asset's fetch
\* (success, insufficient data, or an exception).
C21_DelayBetweenAssets ==
    \A i \in AssetRequests : \A j \in AssetRequests :
        (i < j /\ calls[i].item # calls[j].item) => DelayBetween(i, j)

\* ------------------------------------------------------------------- C22
\* the place of a rate line's display name in the configured rate list
RateRank(name) == CHOOSE i \in 1..Len(fred_series) : Title(fred_series[i]) = name

\* the place of an asset line's symbol in the configured asset list
AssetRank(symbol) == CHOOSE i \in 1..Len(crypto_ids) : crypto_ids[i] = symbol

RateLinesInConfiguredOrder ==
    LET lines == LinesOf(report, "rate")
    IN \A a \in 1..Len(lines) : \A b \in 1..Len(lines) :
          (a < b) => RateRank(lines[a].name) < RateRank(lines[b].name)

AssetLinesInConfiguredOrder ==
    LET lines == LinesOf(report, "asset")
    IN \A a \in 1..Len(lines) : \A b \in 1..Len(lines) :
          (a < b) => AssetRank(lines[a].symbol) < AssetRank(lines[b].symbol)

\* C22: the rate lines of a report come in the configured rate-list order
\* (policy rate, 3-month, 2-year) whichever provider the rate records came
\* from, and the asset lines come in the configured asset-list order.
C22_ConfiguredOrder ==
    Rendered => RateLinesInConfiguredOrder /\ AssetLinesInConfiguredOrder

\* ------------------------------------------------------------------- C23
\* the number of observations of the list dated after observation i
NewerCount(data, i) == Cardinality({j \in 1..Len(data) : data[j].date > data[i].date})

\* the value of the observation that has exactly 'age' newer observations
ValueByAge(data, age) ==
    data[CHOOSE i \in 1..Len(data) : NewerCount(data, i) = age].value

\* the yield record was built from the primary provider's list of observations
YieldFromList ==
    /\ YieldCallReturned /\ env.primary.kind = "data"
    /\ "current_date" \in DOMAIN treasury_data

\* the primary provider answered with a keyed map whose two greatest keys
\* hold readable values
YieldFromMap ==
    /\ YieldCallReturned /\ env.primary.kind = "ts"
    /\ Len(env.primary.series) >= 2
    /\ BadValue \notin {env.primary.series[Len(env.primary.series)],
                         env.primary.series[Len(env.primary.series) - 1]}

ListNewestTwo ==
    YieldFromList =>
        /\ treasury_data.current_yield = ValueByAge(env.primary.data, 0)
        /\ treasury_data.previous_yield = ValueByAge(env.primary.data, 1)

MapGreatestTwo ==
    YieldFromMap =>
        /\ treasury_data # None
        /\ treasury_data.current_yield = env.primary.series[Len(env.primary.series)]
        /\ treasury_data.previous_yield = env.primary.series[Len(env.primary.series) - 1]

\* C23: a yield record built from a list of dated observations holds the value
\* of the newest observation as current and of the second-newest as previous,
\* in whichever order the provider lists them; built from a keyed time-series
\* map it holds the values of the two greatest date keys.
C23_NewestTwo == ListNewestTwo /\ MapGreatestTwo

\* ------------------------------------------------------------------- C24
RecapReturned == pc = "returned" /\ env.op = "generate_market_recap"

\* the day a header date stands for: the inverse of Strftime on the window
\* of the days a call and its data date can fall on
DayOf(date) == CHOOSE d \in -6..7 : Strftime(d) = date

\* the day shown in the title line of the report
HeaderDay == DayOf(report[CHOOSE i \in 1..Len(report) : report[i].kind = "title"].date)

\* C24: the data date in the header of the closing report is derived from the
\* run date by weekday alone: 3 days earlier for a run on Monday, 2 days
\* earlier for a run on Sunday, the previous day otherwise; it is a
\* Monday-to-Friday weekday, strictly earlier than the run date and at most
\* 3 days earlier.
C24_DataDateWeekdayRule ==
    RecapReturned =>
        /\ HeaderDay = now - (CASE Weekday(now) = 0 -> 3
                                [] Weekday(now) = 6 -> 2
                                [] OTHER -> 1)
        /\ Weekday(HeaderDay) \in 0..4
        /\ HeaderDay < now
        /\ now - HeaderDay <= 3
        /\ \A i \in 1..Len(report) :
              /\ report[i].kind = "based_on" => DayOf(report[i].date) = HeaderDay
              /\ report[i].kind = "generated" => DayOf(report[i].date) = now

\* a report of a call on Sunday 8 November 2026, whose header shows the
\* Friday before
C24_Witness ==
    /\ RecapReturned /\ Weekday(now) = 6
    /\ \E i \in 1..Len(report) :
          /\ report[i].kind = "title"
          /\ report[i].date = [month |-> "November", day |-> 6, year |-> 2026]
====
